---- MODULE Spec2Model ----
(***************************************************************************)
(* The users table of the two profile applications and the register and    *)
(* update request handlers that write it:                                  *)
(*   auth variant     src/app.py                      (with_auth = TRUE)   *)
(*   listing variant  src/flask_user_profiles_app.py  (with_auth = FALSE)  *)
(* A request is handled by one thread; its database statements are the     *)
(* atomic steps, and the statements of concurrent requests interleave.     *)
(* Strings are tuples of one-character strings, so that len() and strip()  *)
(* are computed.  None is <<>> and a present value x is <<x>>.             *)
(***************************************************************************)
EXTENDS Integers, Sequences, FiniteSets, TLC

VARIABLES
    with_auth,   \* which of the two programs is running
    users,       \* the users table: sequence of rows in insertion order
    seq,         \* sqlite_sequence of users: the largest id ever assigned
    now,         \* CURRENT_TIMESTAMP
    req          \* per request thread: the handler's position and locals

vars == <<with_auth, users, seq, now, req>>

\* ---------------------------------------------------------------- bounds
MaxTime == 1          \* the clock takes the values 0..MaxTime

Procs == {1, 2}

\* ------------------------------------------------------------- constants
UsernameMin == 3
AuthUsernameMax == 20
ListUsernameMax == 30
PasswordMin == 6
FullNameMin == 2
FullNameMax == 100
AuthAgeMin == 1
AuthAgeMax == 150
ListAgeMin == 0
ListAgeMax == 120
BioMax == 500
EmailMax == 120

None == <<>>
Some(x) == <<x>>

\* ------------------------------------------------------------ strings
Whitespace == {" ", "\t", "\n", "\r"}

\* the string of n characters c
Rep(c, n) == [i \in 1..n |-> c]

RECURSIVE LStrip(_)
LStrip(s) == IF s # <<>> /\ Head(s) \in Whitespace THEN LStrip(Tail(s)) ELSE s

RECURSIVE RStrip(_)
RStrip(s) ==
    IF s # <<>> /\ s[Len(s)] \in Whitespace
    THEN RStrip(SubSeq(s, 1, Len(s) - 1)) ELSE s

\* str.strip()
Strip(s) == RStrip(LStrip(s))

\* ------------------------------------------------- string literals
S_jdoe == <<"j", "d", "o", "e">>
S_asmith == <<"a", "s", "m", "i", "t", "h">>
S_ann == <<"a", "n", "n">>
S_a_padded == <<" ", "a", " ">>
S_jd == <<"j", "d">>
S_a == <<"a">>
S_JohnDoe == <<"J", "o", "h", "n", " ", "D", "o", "e">>
S_AliceSmith == <<"A", "l", "i", "c", "e", " ", "S", "m", "i", "t", "h">>
S_Jo == <<"J", "o">>
S_J_padded == <<" ", "J">>
S_J == <<"J">>
S_jdoe_mail == <<"j", "d", "o", "e", "@", "e", "x", "a", "m", "p", "l", "e", ".", "c", "o", "m">>
S_alice_mail == <<"a", "l", "i", "c", "e", "@", "e", "x", "a", "m", "p", "l", "e", ".", "c", "o", "m">>
S_ann_mail == <<"a", "n", "n", "@", "x", ".", "i", "o">>
S_bad_mail == <<"a", "n", "n", "x", ".", "i", "o">>
S_padded_mail == <<" ", "a", "n", "n", "@", "x", ".", "i", "o">>
S_bio_john == <<"A", " ", "s", "h", "o", "r", "t", " ", "b", "i", "o", " ", "a", "b", "o", "u", "t", " ", "J", "o", "h", "n", ".">>
S_bio_alice == <<"A", "l", "i", "c", "e", " ", "l", "o", "v", "e", "s", " ", "c", "o", "d", "i", "n", "g", " ", "a", "n", "d", " ", "c", "o", "f", "f", "e", "e", ".">>
S_hi_padded == <<" ", "h", "i", " ">>
S_blank == <<" ">>
S_secret == <<"s", "e", "c", "r", "e", "t">>
S_short == <<"s", "h", "o", "r", "t">>
S_empty == <<>>
S_ann_padded == <<" ", "a", "n", "n">>
S_Jo_padded == <<" ", "J", "o", " ">>
S_bio_long == Rep("b", BioMax + 1)

\* ------------------------------------------------- wtforms validators
\* DataRequired: the data is truthy and, for a string, not only whitespace.
\* On failure it stops the field's validation chain.
DataRequired(s) == s # <<>> /\ Strip(s) # <<>>

\* Length(min, max): -1 stands for "no limit", as in wtforms.
Length(s, min, max) == Len(s) >= min /\ (max = -1 \/ Len(s) <= max)

\* Email(): one "@", a non-empty local part, a dotted domain with non-empty
\* labels, no whitespace anywhere (email_validator rejects all other shapes
\* that the inputs below can take).
Email(s) ==
    /\ \A i \in DOMAIN s : s[i] \notin Whitespace
    /\ Cardinality({i \in DOMAIN s : s[i] = "@"}) = 1
    /\ LET at == CHOOSE i \in DOMAIN s : s[i] = "@"
       IN  /\ at > 1
           /\ at < Len(s)
           /\ s[at + 1] # "."
           /\ s[Len(s)] # "."
           /\ \E d \in (at + 1)..Len(s) : s[d] = "."
           /\ \A d \in (at + 1)..(Len(s) - 1) : ~(s[d] = "." /\ s[d + 1] = ".")

\* NumberRange(min, max): data that is None (blank or non-numeric input of an
\* IntegerField) fails, there being no Optional() in the chain.
NumberRange(age, min, max) == age # None /\ age[1] >= min /\ age[1] <= max

\* ------------------------------------------------------ the users table
Ids(tbl) == {tbl[i].id : i \in DOMAIN tbl}

RowsById(tbl, id) == {i \in DOMAIN tbl : tbl[i].id = id}

\* SELECT id FROM users WHERE username = ?
FindByUsername(tbl, name) == {i \in DOMAIN tbl : tbl[i].username = name}

\* SELECT id FROM users WHERE email = ?
FindByEmail(tbl, email) == {i \in DOMAIN tbl : tbl[i].email = email}

\* SELECT id FROM users WHERE email = ? AND id != ?
FindByEmailExcludingId(tbl, email, id) ==
    {i \in DOMAIN tbl : tbl[i].email = email /\ tbl[i].id # id}

\* UniqueViolation with the email column not declared UNIQUE.
UniqueViolation_UsernameOnly(tbl, name, email, self) ==
    \E i \in DOMAIN tbl : i # self /\ tbl[i].username = name

\* The UNIQUE constraints of username and email: does writing (name, email)
\* into the row at position self (0 for a fresh row) raise IntegrityError?
UniqueViolation(tbl, name, email, self) ==
    \E i \in DOMAIN tbl :
        /\ i # self
        /\ (tbl[i].username = name \/ tbl[i].email = email)

\* INTEGER PRIMARY KEY AUTOINCREMENT: one more than the largest id ever used.
MaxOf(S) == IF S = {} THEN 0 ELSE LET x == CHOOSE x \in S : \A y \in S : y <= x IN x

\* NextId handing out the largest id again.
NextId_NoIncrement(tbl, s) == MaxOf(Ids(tbl) \cup {s})

NextId(tbl, s) == MaxOf(Ids(tbl) \cup {s}) + 1

\* ------------------------------------------------------- request state
Idle == [op |-> "none", stage |-> "idle", form |-> <<>>, uid |-> 0,
         errs |-> {}, outcome |-> "none"]

Done(r, outcome) == [r EXCEPT !.stage = "done", !.outcome = outcome]

Form(username, email, password, full_name, age, bio) ==
    [username |-> username, email |-> email, password |-> password,
     full_name |-> full_name, age |-> age, bio |-> bio]

\* generate_password_hash: a salted one-way function of the password.
Salts == {"s1", "s2"}
generate_password_hash(pw, salt) == <<"pbkdf2", salt, pw>>

\* ======================================================= auth variant
\* AuthUsernameErrors without the inline validator validate_username.
AuthUsernameErrors_NoLookup(tbl, f) ==
    IF DataRequired(f.username) /\ Length(f.username, UsernameMin, AuthUsernameMax)
    THEN {} ELSE {"username"}

\* RegistrationForm.username: DataRequired, Length(3, 20), validate_username.
\* The inline validator runs unless DataRequired stopped the chain.
AuthUsernameErrors(tbl, f) ==
    IF ~DataRequired(f.username) THEN {"username"}
    ELSE IF \/ ~Length(f.username, UsernameMin, AuthUsernameMax)
            \/ FindByUsername(tbl, f.username) # {}
         THEN {"username"} ELSE {}

\* RegistrationForm.email: DataRequired, Email, validate_email.
AuthRegEmailErrors(tbl, f) ==
    IF ~DataRequired(f.email) THEN {"email"}
    ELSE IF ~Email(f.email) \/ FindByEmail(tbl, f.email) # {}
         THEN {"email"} ELSE {}

\* UpdateProfileForm.email: DataRequired, Email, validate_email (excluding
\* the session's own row).
AuthUpdEmailErrors(tbl, f, sid) ==
    IF ~DataRequired(f.email) THEN {"email"}
    ELSE IF ~Email(f.email) \/ FindByEmailExcludingId(tbl, f.email, sid) # {}
         THEN {"email"} ELSE {}

AuthPasswordErrors(f) ==
    IF DataRequired(f.password) /\ Length(f.password, PasswordMin, -1)
    THEN {} ELSE {"password"}

AuthFullNameErrors(f) ==
    IF DataRequired(f.full_name) /\ Length(f.full_name, FullNameMin, FullNameMax)
    THEN {} ELSE {"full_name"}

AuthAgeErrors(f) ==
    IF NumberRange(f.age, AuthAgeMin, AuthAgeMax) THEN {} ELSE {"age"}

AuthBioErrors(f) == IF Length(f.bio, -1, BioMax) THEN {} ELSE {"bio"}

\* form.age.data if form.age.data else None
AuthAgeValue(f) == IF f.age # None /\ f.age[1] # 0 THEN f.age ELSE None

\* form.bio.data if form.bio.data else None
AuthBioValue(f) == IF f.bio # <<>> THEN Some(f.bio) ELSE None

\* The row INSERTed by register; created_at and updated_at default to
\* CURRENT_TIMESTAMP.
AuthNewRow(id, f, hashed, t) ==
    [id |-> id, username |-> f.username, email |-> f.email,
     password |-> Some(hashed), full_name |-> f.full_name,
     age |-> AuthAgeValue(f), bio |-> AuthBioValue(f),
     created_at |-> Some(t), updated_at |-> Some(t)]

\* AuthUpdatedRow with updated_at left out of the SET list.
AuthUpdatedRow_NoTouch(row, f, t) ==
    [row EXCEPT !.email = f.email, !.full_name = f.full_name,
                !.age = AuthAgeValue(f), !.bio = AuthBioValue(f)]

\* The row after UPDATE users SET email, full_name, age, bio, updated_at.
AuthUpdatedRow(row, f, t) ==
    [row EXCEPT !.email = f.email, !.full_name = f.full_name,
                !.age = AuthAgeValue(f), !.bio = AuthBioValue(f),
                !.updated_at = Some(t)]

\* register, POST: validation of the username field, with its lookup.
AuthRegister_validate_username(p, f) ==
    /\ with_auth
    /\ req[p].stage = "idle"
    /\ req' = [req EXCEPT ![p] =
                 [op |-> "register", stage |-> "validate_email", form |-> f,
                  uid |-> 0, errs |-> AuthUsernameErrors(users, f),
                  outcome |-> "none"]]
    /\ UNCHANGED <<with_auth, users, seq, now>>

\* register, POST: validation of the email field, with its lookup, and of
\* the remaining fields; validate_on_submit() then returns.
AuthRegister_validate_email(p) ==
    /\ with_auth
    /\ req[p].op = "register"
    /\ req[p].stage = "validate_email"
    /\ LET f == req[p].form
           errs == req[p].errs \cup AuthRegEmailErrors(users, f)
                     \cup AuthPasswordErrors(f) \cup AuthFullNameErrors(f)
                     \cup AuthAgeErrors(f) \cup AuthBioErrors(f)
       IN  req' = [req EXCEPT ![p] =
                     IF errs = {}
                     THEN [req[p] EXCEPT !.stage = "insert"]
                     ELSE Done([req[p] EXCEPT !.errs = errs], "ValidationFailure")]
    /\ UNCHANGED <<with_auth, users, seq, now>>

\* AuthRegister_insert without the except clause for IntegrityError.
AuthRegister_insert_uncaught(p) ==
    /\ with_auth
    /\ req[p].op = "register"
    /\ req[p].stage = "insert"
    /\ LET f == req[p].form
       IN  IF UniqueViolation(users, f.username, f.email, 0)
           THEN /\ req' = [req EXCEPT ![p] = Done(req[p], "UnhandledException")]
                /\ UNCHANGED <<users, seq>>
           ELSE \E salt \in Salts :
                  LET id == NextId(users, seq)
                      row == AuthNewRow(id, f,
                               generate_password_hash(f.password, salt), now)
                  IN  /\ users' = Append(users, row)
                      /\ seq' = id
                      /\ req' = [req EXCEPT ![p] =
                                   Done([req[p] EXCEPT !.uid = id], "Success")]
    /\ UNCHANGED <<with_auth, now>>

\* register, POST: INSERT, commit and the SELECT of the new id for the
\* session; IntegrityError is caught and the form is rendered again.
AuthRegister_insert(p) ==
    /\ with_auth
    /\ req[p].op = "register"
    /\ req[p].stage = "insert"
    /\ LET f == req[p].form
       IN  IF UniqueViolation(users, f.username, f.email, 0)
           THEN /\ req' = [req EXCEPT ![p] = Done(req[p], "Conflict")]
                /\ UNCHANGED <<users, seq>>
           ELSE \E salt \in Salts :
                  LET id == NextId(users, seq)
                      row == AuthNewRow(id, f,
                               generate_password_hash(f.password, salt), now)
                  IN  /\ users' = Append(users, row)
                      /\ seq' = id
                      /\ req' = [req EXCEPT ![p] =
                                   Done([req[p] EXCEPT !.uid = id], "Success")]
    /\ UNCHANGED <<with_auth, now>>

\* update_profile, POST: the session check and the SELECT of the current
\* row; an absent row clears the session and redirects.
AuthUpdate_load(p, f, sid) ==
    /\ with_auth
    /\ req[p].stage = "idle"
    /\ LET r == [op |-> "update", stage |-> "validate",
                 form |-> [f EXCEPT !.username = <<>>, !.password = <<>>],
                 uid |-> sid, errs |-> {}, outcome |-> "none"]
       IN  req' = [req EXCEPT ![p] =
                     IF RowsById(users, sid) = {} THEN Done(r, "NotFound") ELSE r]
    /\ UNCHANGED <<with_auth, users, seq, now>>

\* update_profile, POST: validate_on_submit() of UpdateProfileForm.
AuthUpdate_validate(p) ==
    /\ with_auth
    /\ req[p].op = "update"
    /\ req[p].stage = "validate"
    /\ LET f == req[p].form
           errs == AuthUpdEmailErrors(users, f, req[p].uid)
                     \cup AuthFullNameErrors(f) \cup AuthAgeErrors(f)
                     \cup AuthBioErrors(f)
       IN  req' = [req EXCEPT ![p] =
                     IF errs = {}
                     THEN [req[p] EXCEPT !.stage = "write"]
                     ELSE Done([req[p] EXCEPT !.errs = errs], "ValidationFailure")]
    /\ UNCHANGED <<with_auth, users, seq, now>>

\* AuthUpdate_write with the WHERE id = ? clause missing from the columns
\* that carry no constraint: they are written into every row.
AuthUpdate_write_AllRows(p) ==
    /\ with_auth
    /\ req[p].op = "update"
    /\ req[p].stage = "write"
    /\ LET f == req[p].form
           hit == RowsById(users, req[p].uid)
       IN  IF \E i \in hit : UniqueViolation(users, users[i].username, f.email, i)
           THEN /\ req' = [req EXCEPT ![p] = Done(req[p], "UnhandledException")]
                /\ users' = users
           ELSE /\ users' = [i \in DOMAIN users |->
                               IF i \in hit THEN AuthUpdatedRow(users[i], f, now)
                               ELSE [users[i] EXCEPT
                                       !.full_name = f.full_name,
                                       !.age = AuthAgeValue(f),
                                       !.bio = AuthBioValue(f),
                                       !.updated_at = Some(now)]]
                /\ req' = [req EXCEPT ![p] = Done(req[p], "Success")]
    /\ UNCHANGED <<with_auth, seq, now>>

\* update_profile, POST: UPDATE and commit.  There is no try block: an
\* IntegrityError leaves the handler as an unhandled exception; the
\* statement has then changed nothing.
AuthUpdate_write(p) ==
    /\ with_auth
    /\ req[p].op = "update"
    /\ req[p].stage = "write"
    /\ LET f == req[p].form
           hit == RowsById(users, req[p].uid)
       IN  IF \E i \in hit : UniqueViolation(users, users[i].username, f.email, i)
           THEN /\ req' = [req EXCEPT ![p] = Done(req[p], "UnhandledException")]
                /\ users' = users
           ELSE /\ users' = [i \in DOMAIN users |->
                               IF i \in hit THEN AuthUpdatedRow(users[i], f, now)
                               ELSE users[i]]
                /\ req' = [req EXCEPT ![p] = Done(req[p], "Success")]
    /\ UNCHANGED <<with_auth, seq, now>>

\* ==================================================== listing variant
\* ProfileForm: the declared validators of each field; there is no inline
\* validator, so no lookup happens at validation time.
ListUsernameErrors(f) ==
    IF DataRequired(f.username) /\ Length(f.username, UsernameMin, ListUsernameMax)
    THEN {} ELSE {"username"}

ListFullNameErrors(f) ==
    IF DataRequired(f.full_name) /\ Length(f.full_name, FullNameMin, FullNameMax)
    THEN {} ELSE {"full_name"}

ListEmailErrors(f) ==
    IF DataRequired(f.email) /\ Email(f.email) /\ Length(f.email, -1, EmailMax)
    THEN {} ELSE {"email"}

ListAgeErrors(f) ==
    IF NumberRange(f.age, ListAgeMin, ListAgeMax) THEN {} ELSE {"age"}

ListBioErrors(f) == IF Length(f.bio, -1, BioMax) THEN {} ELSE {"bio"}

ProfileFormErrors(f) ==
    ListUsernameErrors(f) \cup ListFullNameErrors(f) \cup ListEmailErrors(f)
      \cup ListAgeErrors(f) \cup ListBioErrors(f)

\* The values bound to the INSERT and the UPDATE: each string stripped,
\* bio the stripped string (never NULL), age as validated.
ListValues(f) ==
    [username |-> Strip(f.username), full_name |-> Strip(f.full_name),
     email |-> Strip(f.email), age |-> f.age, bio |-> Some(Strip(f.bio))]

ListRow(id, v) ==
    [id |-> id, username |-> v.username, email |-> v.email, password |-> None,
     full_name |-> v.full_name, age |-> v.age, bio |-> v.bio,
     created_at |-> None, updated_at |-> None]

\* register, POST: validate_on_submit() of ProfileForm.
ListRegister_validate(p, f) ==
    /\ ~with_auth
    /\ req[p].stage = "idle"
    /\ LET errs == ProfileFormErrors(f)
           r == [op |-> "register", stage |-> "insert",
                 form |-> [f EXCEPT !.password = <<>>], uid |-> 0,
                 errs |-> errs, outcome |-> "none"]
       IN  req' = [req EXCEPT ![p] =
                     IF errs = {} THEN r ELSE Done(r, "ValidationFailure")]
    /\ UNCHANGED <<with_auth, users, seq, now>>

\* register, POST: INSERT and commit; IntegrityError is caught.
ListRegister_insert(p) ==
    /\ ~with_auth
    /\ req[p].op = "register"
    /\ req[p].stage = "insert"
    /\ LET v == ListValues(req[p].form)
           id == NextId(users, seq)
       IN  IF UniqueViolation(users, v.username, v.email, 0)
           THEN /\ req' = [req EXCEPT ![p] = Done(req[p], "Conflict")]
                /\ UNCHANGED <<users, seq>>
           ELSE /\ users' = Append(users, ListRow(id, v))
                /\ seq' = id
                /\ req' = [req EXCEPT ![p] =
                             Done([req[p] EXCEPT !.uid = id], "Success")]
    /\ UNCHANGED <<with_auth, now>>

\* update, POST: SELECT * FROM users WHERE id = ? and, the row being there,
\* validate_on_submit() of ProfileForm.
ListUpdate_load(p, f, user_id) ==
    /\ ~with_auth
    /\ req[p].stage = "idle"
    /\ LET errs == ProfileFormErrors(f)
           r == [op |-> "update", stage |-> "write",
                 form |-> [f EXCEPT !.password = <<>>], uid |-> user_id,
                 errs |-> {}, outcome |-> "none"]
       IN  req' = [req EXCEPT ![p] =
                     IF RowsById(users, user_id) = {} THEN Done(r, "NotFound")
                     ELSE IF errs = {} THEN r
                     ELSE Done([r EXCEPT !.errs = errs], "ValidationFailure")]
    /\ UNCHANGED <<with_auth, users, seq, now>>

\* ListUpdate_write with the columns written by separate statements, the
\* unconstrained ones committed before the constrained ones fail.
ListUpdate_write_partial(p) ==
    /\ ~with_auth
    /\ req[p].op = "update"
    /\ req[p].stage = "write"
    /\ LET v == ListValues(req[p].form)
           hit == RowsById(users, req[p].uid)
           bad == \E i \in hit : UniqueViolation(users, v.username, v.email, i)
       IN  /\ users' = [i \in DOMAIN users |->
                          IF i \notin hit THEN users[i]
                          ELSE IF bad
                          THEN [users[i] EXCEPT !.full_name = v.full_name,
                                                !.age = v.age, !.bio = v.bio]
                          ELSE [users[i] EXCEPT
                                  !.username = v.username,
                                  !.full_name = v.full_name,
                                  !.email = v.email,
                                  !.age = v.age, !.bio = v.bio]]
           /\ req' = [req EXCEPT ![p] =
                        Done(req[p], IF bad THEN "Conflict" ELSE "Success")]
    /\ UNCHANGED <<with_auth, seq, now>>

\* update, POST: UPDATE and commit; IntegrityError is caught.
ListUpdate_write(p) ==
    /\ ~with_auth
    /\ req[p].op = "update"
    /\ req[p].stage = "write"
    /\ LET v == ListValues(req[p].form)
           hit == RowsById(users, req[p].uid)
       IN  IF \E i \in hit : UniqueViolation(users, v.username, v.email, i)
           THEN /\ req' = [req EXCEPT ![p] = Done(req[p], "Conflict")]
                /\ users' = users
           ELSE /\ users' = [i \in DOMAIN users |->
                               IF i \in hit
                               THEN [users[i] EXCEPT
                                       !.username = v.username,
                                       !.full_name = v.full_name,
                                       !.email = v.email,
                                       !.age = v.age, !.bio = v.bio]
                               ELSE users[i]]
                /\ req' = [req EXCEPT ![p] = Done(req[p], "Success")]
    /\ UNCHANGED <<with_auth, seq, now>>

\* ======================================================== both variants
\* The response is sent and the thread takes the next request.
Respond(p) ==
    /\ req[p].stage = "done"
    /\ req' = [req EXCEPT ![p] = Idle]
    /\ UNCHANGED <<with_auth, users, seq, now>>

\* The wall clock behind CURRENT_TIMESTAMP moves on.
Tick ==
    /\ now < MaxTime
    /\ now' = now + 1
    /\ UNCHANGED <<with_auth, users, seq, req>>

\* The rows the listing program inserts at start-up into an empty table.
SampleUsers ==
    << ListRow(1, [username |-> S_jdoe, full_name |-> S_JohnDoe,
                   email |-> S_jdoe_mail, age |-> Some(34),
                   bio |-> Some(S_bio_john)]),
       ListRow(2, [username |-> S_asmith, full_name |-> S_AliceSmith,
                   email |-> S_alice_mail, age |-> Some(28),
                   bio |-> Some(S_bio_alice)]) >>

Init ==
    /\ with_auth \in BOOLEAN
    /\ users = IF with_auth THEN <<>> ELSE SampleUsers
    /\ seq = IF with_auth THEN 0 ELSE Len(SampleUsers)
    /\ now = 0
    /\ req = [p \in Procs |-> Idle]

\* The ids a request may name (URL /update/<id>, session cookie): those of
\* the rows and one that no row has.
UserIds == 1..(Len(users) + 1)

\* ------------------------------------------------- concurrent requests
\* Two request threads and submissions that collide on username and email.
RaceForms ==
    {Form(u, e, S_secret, S_Jo, Some(34), S_empty) :
        u \in {S_jdoe, S_ann}, e \in {S_jdoe_mail, S_ann_mail}}
      \cup {Form(S_ann, S_ann_mail, S_secret, S_J, Some(34), S_empty)}

\* The steps of request thread p over the submissions Forms.  GET requests,
\* /profile, /logout and a POST /update without a session user_id read or
\* redirect only and are left out: they change no row.
Step(p, Forms) ==
    \/ \E f \in Forms : AuthRegister_validate_username(p, f)
    \/ AuthRegister_validate_email(p)
    \/ AuthRegister_insert(p)
    \/ \E f \in Forms, sid \in UserIds : AuthUpdate_load(p, f, sid)
    \/ AuthUpdate_validate(p)
    \/ AuthUpdate_write(p)
    \/ \E f \in Forms : ListRegister_validate(p, f)
    \/ ListRegister_insert(p)
    \/ \E f \in Forms, user_id \in UserIds : ListUpdate_load(p, f, user_id)
    \/ ListUpdate_write(p)
    \/ Respond(p)

Next == (\E p \in Procs : Step(p, RaceForms)) \/ Tick

Spec == Init /\ [][Next]_vars

\* --------------------------------------------------- one request at a time
\* One request thread and submissions that differ from a valid one in a
\* single field, over the boundary values of every rule.
BaseForms ==
    {Form(u, e, S_secret, S_Jo, Some(34), S_empty) :
        u \in {S_jdoe, S_ann}, e \in {S_jdoe_mail, S_ann_mail}}

ValidForm == Form(S_ann, S_ann_mail, S_secret, S_Jo, Some(34), S_empty)

Ages == {None, Some(0), Some(1), Some(120), Some(121), Some(150), Some(151)}

FieldForms ==
    BaseForms
      \cup {[ValidForm EXCEPT !.username = x] :
              x \in {S_a_padded, S_ann_padded, S_jd, S_a}}
      \cup {[ValidForm EXCEPT !.email = x] : x \in {S_padded_mail, S_bad_mail}}
      \cup {[ValidForm EXCEPT !.password = x] : x \in {S_short}}
      \cup {[ValidForm EXCEPT !.full_name = x] : x \in {S_J_padded, S_Jo_padded, S_J}}
      \cup {[ValidForm EXCEPT !.age = x] : x \in Ages}
      \cup {[ValidForm EXCEPT !.bio = x] : x \in {S_hi_padded, S_blank, S_bio_long}}

NextV == Step(1, FieldForms) \/ Tick

SpecV == Init /\ [][NextV]_vars

\* ================================================================ claims
\* The values a submission is stored under: the auth variant binds the
\* field data as submitted, the listing variant binds it stripped.
StoredUsername(f) == IF with_auth THEN f.username ELSE Strip(f.username)

StoredEmail(f) == IF with_auth THEN f.email ELSE Strip(f.email)

\* Request p receives its outcome in this step.
Finishes(p) == req[p].stage # "done" /\ req'[p].stage = "done"

\* C1: no two distinct rows of the users table share a username, and no two
\* distinct rows share an email, in every reachable state.
C1_UniqueKeys ==
    \A i, j \in DOMAIN users :
        i # j => /\ users[i].username # users[j].username
                 /\ users[i].email # users[j].email

\* C1 witness: two rows are stored and a write has just been rejected by
\* the constraint.
C1_Witness ==
    /\ Len(users) >= 2
    /\ \E p \in Procs :
          /\ req[p].stage = "done"
          /\ req[p].outcome \in {"Conflict", "UnhandledException"}

\* C2: a register request that reaches its INSERT ends in Success when no
\* row holds its username or email and in the handled Conflict outcome when
\* one does (never in an unhandled exception); a rejected INSERT changes
\* nothing, and afterwards exactly one row holds the username (email) that
\* was inserted or collided.
C2_RegisterRaceHandled ==
    [][\A p \in Procs :
         (req[p].op = "register" /\ req[p].stage = "insert" /\ req'[p].stage = "done")
         => LET f == req[p].form
                byName == FindByUsername(users, StoredUsername(f))
                byMail == FindByEmail(users, StoredEmail(f))
                taken == byName # {} \/ byMail # {}
            IN  /\ req'[p].outcome = IF taken THEN "Conflict" ELSE "Success"
                /\ taken => users' = users
                /\ (byName # {} \/ ~taken)
                     => Cardinality(FindByUsername(users', StoredUsername(f))) = 1
                /\ (byMail # {} \/ ~taken)
                     => Cardinality(FindByEmail(users', StoredEmail(f))) = 1
      ]_vars

\* C2 witness: in the auth variant two register requests with the same
\* username both passed the lookup; one has inserted, the other has ended
\* in Conflict.
C2_Witness ==
    /\ with_auth
    /\ \E p, q \in Procs :
          /\ p # q
          /\ req[p].op = "register" /\ req[q].op = "register"
          /\ req[p].stage = "done" /\ req[q].stage = "done"
          /\ req[p].outcome = "Success" /\ req[q].outcome = "Conflict"
          /\ req[p].form.username = req[q].form.username
          /\ Cardinality(FindByUsername(users, req[p].form.username)) = 1

\* C3: no request ends with a storage exception escaping its handler: every
\* outcome is a success or one of the three taxonomy failures.
C3_NoEscapedStorageException ==
    \A p \in Procs : req[p].outcome # "UnhandledException"

\* C4: the users table changes only in a step that ends a request in
\* Success; every other step, in particular the one that ends a request in
\* a validation failure, a uniqueness conflict or not-found, leaves every
\* row and the id sequence as they were.
C4_FailureChangesNothing ==
    [][(\A p \in Procs : ~(Finishes(p) /\ req'[p].outcome = "Success"))
         => (users' = users /\ seq' = seq)]_vars

\* C4 witness: an update of an existing row in the listing variant has been
\* rejected by the constraint.
C4_Witness ==
    /\ ~with_auth
    /\ \E p \in Procs :
          /\ req[p].op = "update"
          /\ req[p].stage = "done"
          /\ req[p].outcome = "Conflict"
          /\ RowsById(users, req[p].uid) # {}

\* The fields of a register submission that a row already holds.
TakenFields(tbl, f) ==
    (IF FindByUsername(tbl, StoredUsername(f)) # {} THEN {"username"} ELSE {})
      \cup (IF FindByEmail(tbl, StoredEmail(f)) # {} THEN {"email"} ELSE {})

MaxUsernameLen == IF with_auth THEN AuthUsernameMax ELSE ListUsernameMax

LenWithin(s, min, max) ==
    /\ Len(s) >= min /\ Len(s) <= max
    /\ Len(Strip(s)) >= min /\ Len(Strip(s)) <= max

AgeAcceptable(a) ==
    \/ a = None
    \/ IF with_auth THEN a[1] >= AuthAgeMin /\ a[1] <= AuthAgeMax
       ELSE a[1] >= ListAgeMin /\ a[1] <= ListAgeMax

OtherFieldsValid(f) ==
    /\ LenWithin(f.full_name, FullNameMin, FullNameMax)
    /\ AgeAcceptable(f.age)
    /\ Len(f.bio) <= BioMax

SatisfiesRules(f) ==
    /\ LenWithin(f.username, UsernameMin, MaxUsernameLen)
    /\ Email(Strip(f.email)) /\ Len(f.email) <= EmailMax
    /\ OtherFieldsValid(f)
    /\ with_auth => Len(f.password) >= PasswordMin

NormalizedBio(f) == IF Strip(f.bio) = <<>> THEN None ELSE Some(Strip(f.bio))

\* C6: a register submission that satisfies every rule, uniqueness included,
\* succeeds, and the row it stores holds each string field stripped of
\* leading and trailing whitespace, an empty bio as absent.
C6_RegisterStoresNormalized ==
    \A p \in Procs :
        (req[p].op = "register" /\ req[p].stage = "done")
        => LET f == req[p].form
           IN  /\ ( /\ SatisfiesRules(f)
                    /\ FindByUsername(users, Strip(f.username)) = {}
                    /\ FindByEmail(users, Strip(f.email)) = {} )
                  => req[p].outcome = "Success"
               /\ req[p].outcome = "Success"
                  => \A i \in RowsById(users, req[p].uid) :
                        /\ users[i].username = Strip(f.username)
                        /\ users[i].email = Strip(f.email)
                        /\ users[i].full_name = Strip(f.full_name)
                        /\ users[i].age = f.age
                        /\ users[i].bio = NormalizedBio(f)

\* C7: an update whose email is the one stored in its own row (and, in the
\* listing variant, whose username is the row's own), all other fields
\* satisfying their rules, succeeds.
C7_OwnEmailSucceeds ==
    \A p \in Procs :
        ( /\ req[p].op = "update"
          /\ req[p].stage = "done"
          /\ OtherFieldsValid(req[p].form)
          /\ \E i \in RowsById(users, req[p].uid) :
                /\ users[i].email = req[p].form.email
                /\ ~with_auth => users[i].username = req[p].form.username )
        => req[p].outcome = "Success"

\* Validation of request p's submission has run to its end.
Validated(p) ==
    \/ req[p].stage \in {"insert", "write"}
    \/ req[p].stage = "done" /\ req[p].outcome # "NotFound"

\* C8: a submission is accepted with respect to age exactly when age is
\* absent or an integer in the variant's range.
C8_AgeOptionalInRange ==
    \A p \in Procs :
        Validated(p) => (("age" \notin req[p].errs) <=> AgeAcceptable(req[p].form.age))

\* C9: in the auth variant updated_at of a row never decreases, a successful
\* update sets it to the current time, and an update that fails validation
\* leaves it (and the rest of the table) unchanged.
C9_UpdatedAt ==
    [][with_auth =>
         /\ \A i \in DOMAIN users :
               /\ i \in DOMAIN users'
               /\ users'[i].updated_at[1] >= users[i].updated_at[1]
         /\ \A p \in Procs :
               (req[p].op = "update" /\ Finishes(p) /\ req'[p].outcome = "Success")
               => /\ RowsById(users', req[p].uid) # {}
                  /\ \A i \in RowsById(users', req[p].uid) :
                        users'[i].updated_at = Some(now)
         /\ \A p \in Procs :
               (req'[p].op = "update" /\ Finishes(p)
                  /\ req'[p].outcome = "ValidationFailure")
               => users' = users
      ]_vars

\* C9 witness: a successful update has moved updated_at of its row past
\* created_at.
C9_Witness ==
    /\ with_auth
    /\ \E p \in Procs :
          /\ req[p].op = "update"
          /\ req[p].stage = "done"
          /\ req[p].outcome = "Success"
          /\ \E i \in RowsById(users, req[p].uid) :
                users[i].updated_at[1] > users[i].created_at[1]

\* C10: every insert assigns an id larger than every id assigned before
\* (seq is the largest of them), hence one no row holds or held, and no
\* step changes the id of a row or removes a row.
C10_IdsFreshAndFixed ==
    [][/\ \A i \in DOMAIN users :
             i \in DOMAIN users' /\ users'[i].id = users[i].id
       /\ \A i \in DOMAIN users' :
             i \notin DOMAIN users
             => /\ users'[i].id > seq
                /\ users'[i].id \notin Ids(users)
                /\ seq' = users'[i].id
       /\ \A i \in DOMAIN users : users[i].id <= seq
      ]_vars

\* C10 witness: a second insert has been given its id and an update of a
\* row has succeeded.
C10_Witness ==
    \E p, q \in Procs :
        /\ req[p].op = "register" /\ req[p].stage = "done"
        /\ req[p].outcome = "Success" /\ req[p].uid >= 2
        /\ req[q].op = "update" /\ req[q].stage = "done"
        /\ req[q].outcome = "Success"

\* C11: a successful update of id i leaves every row with another id as it
\* was; no step removes a row; and in the auth variant the username, the
\* password and created_at of row i stay as they were.
C11_UpdateScopedToOneRow ==
    [][/\ \A i \in DOMAIN users :
             i \in DOMAIN users' /\ users'[i].id = users[i].id
       /\ \A p \in Procs :
             (req[p].op = "update" /\ Finishes(p) /\ req'[p].outcome = "Success")
             => /\ Len(users') = Len(users)
                /\ \A i \in DOMAIN users :
                      IF users[i].id # req[p].uid
                      THEN users'[i] = users[i]
                      ELSE with_auth =>
                             /\ users'[i].username = users[i].username
                             /\ users'[i].password = users[i].password
                             /\ users'[i].created_at = users[i].created_at
      ]_vars

\* C11 witness: in the auth variant, with two rows stored, an update has
\* succeeded and has changed the email of its row.
C11_Witness ==
    /\ with_auth
    /\ Len(users) >= 2
    /\ \E p \in Procs :
          /\ req[p].op = "update"
          /\ req[p].stage = "done"
          /\ req[p].outcome = "Success"
          /\ \E i \in RowsById(users, req[p].uid) :
                /\ users[i].email = req[p].form.email
                /\ users[i].updated_at[1] > users[i].created_at[1]

\* C12: every stored row satisfies the length rules of its variant in the
\* stored form: the username has between 3 and the variant's maximum of
\* characters, the full_name between 2 and 100.
C12_StoredLengths ==
    \A i \in DOMAIN users :
        /\ Len(users[i].username) >= UsernameMin
        /\ Len(users[i].username) <= MaxUsernameLen
        /\ Len(users[i].full_name) >= FullNameMin
        /\ Len(users[i].full_name) <= FullNameMax

====
